---- MODULE Spec2Model ----
(***************************************************************************)
(* dropboxfs/dbfs.py: the delta poller (delta_thread), the watch registry  *)
(* (FileSystem.create_watch / stop), the snapshot directory iterator       *)
(* (_Directory) and the file handle (_File).                               *)
(*                                                                         *)
(* Strings are sequences of one-character strings, so that startswith,     *)
(* find and slicing are computed as Python computes them.                  *)
(***************************************************************************)
EXTENDS Integers, Sequences, FiniteSets, TLC

VARIABLES
    \* ---- FileSystem / delta_thread ----
    watches,       \* FileSystem._watches: list of tags
    live,          \* ghost: tag -> number of create_watch calls whose stop() has not returned
    cw,            \* ghost: outcome of the most recent create_watch call
    lock,          \* FileSystem._watches_lock: "free", or the thread that holds it
    stopLeft,      \* ghost: registrations equal to the stopped tag left by the most recent stop() (None: no stop() yet)
    pc,            \* position of delta_thread
    cursor,        \* delta_thread local `cursor` (None or a feed position)
    needs_reset,   \* delta_thread local `needs_reset`
    res,           \* delta_thread local `res` (the fetched batch)
    watchesCopy,   \* delta_thread local `watches` (copy of the registry)
    idx,           \* position of the `for ... in watches` loop (1-based)
    exc,           \* exception that ended delta_thread ("none" while it runs)
    owedReset,     \* ghost: a ListFolderContinueError happened and no delivery cycle completed since
    copyAfterStop, \* ghost: a stop() had returned when the copy in watchesCopy was taken
    calls,         \* ghost: the callback calls made so far in this iteration of the while loop
    fetchLog,      \* ghost: the feed positions fetched with success since the cursor was acquired
    \* ---- scope matching applied to drawn inputs ----
    m_handle, m_tree, m_entries, m_out, m_done,
    \* ---- _Directory ----
    d_listing,     \* backend: the pages files_list_folder / _continue return for the directory
    now,           \* the clock read by datetime.utcnow()
    d_cursor,      \* _Directory._cursor
    gen,           \* _Directory._md: the frame of the generator __it
    d_last,        \* ghost: what the most recent read() gave back
    d_out,         \* ghost: names read() returned since the last reset()
    d_seen,        \* ghost: names read() returned before the last reset()
    d_prevStart,   \* ghost: `start` of the enumeration before the last reset(), until the next one starts
    d_ordered,     \* ghost: every enumeration so far took a `start` >= the one before it
    \* ---- _File ----
    f_content,     \* backend: the bytes of the remote file
    f_isdir,       \* backend: the handle's path names a directory
    f_offset,      \* _File._offset
    f_last         \* ghost: the most recent call on the handle and what it gave back

pollVars == <<pc, cursor, needs_reset, res, watchesCopy, idx, exc, owedReset, copyAfterStop, calls, fetchLog>>
regVars == <<watches, live, cw, lock, stopLeft>>
matchVars == <<m_handle, m_tree, m_entries, m_out, m_done>>
dirVars == <<d_listing, now, d_cursor, gen, d_last, d_out, d_seen, d_prevStart, d_ordered>>
fileVars == <<f_content, f_isdir, f_offset, f_last>>
vars == <<regVars, pollVars, matchVars, dirVars, fileVars>>

\* Python None, for the integer-valued cursor
None == -1

\* ------------------------------------------------------------------ bounds
MaxWatches == 2
MaxCursor == 2
MaxDepth == 3
MaxMatchBatch == 1
MaxEntries == 3
MaxTime == 1
MaxFileLen == 3

\* ------------------------------------------------------------------ strings
Slash == "/"

\* str.startswith
StartsWith(s, p) == Len(p) <= Len(s) /\ SubSeq(s, 1, Len(p)) = p

\* str.find for a one-character needle: lowest 0-based index, or -1
Find(s, c) ==
    IF \E i \in 1..Len(s) : s[i] = c
    THEN (CHOOSE i \in 1..Len(s) : s[i] = c /\ \A j \in 1..(i-1) : s[j] # c) - 1
    ELSE -1

\* s[n:]
SliceFrom(s, n) == SubSeq(s, n + 1, Len(s))

\* names of path components used to build the paths the model draws
Names == { <<"b">>, <<"b", "c">> }

RECURSIVE JoinPath(_)
\* the lower-cased absolute path with the given components ("/" for none)
JoinPath(comps) ==
    IF Len(comps) = 0 THEN <<Slash>>
    ELSE IF Len(comps) = 1 THEN <<Slash>> \o comps[1]
    ELSE JoinPath(SubSeq(comps, 1, Len(comps) - 1)) \o <<Slash>> \o comps[Len(comps)]

CompSeqs(n) == UNION { [1..k -> Names] : k \in 0..n }

\* ------------------------------------------------------------------ handles
\* _File(fs, path_lower, id): the fields the poller and create_watch read
File(path_lower) == [cls |-> "_File", path_lower |-> path_lower]

\* _Directory(fs, path, id)
Directory(path) == [cls |-> "_Directory", path |-> path]

\* FileSystem.open(path): no check that the path names a file
Open(path) == File(path)

\* FileSystem.open_directory(path)
OpenDirectory(path) == Directory(path)

\* ------------------------------------------------------------------ feed entries
\* a feed entry: FileMetadata/FolderMetadata (deleted = FALSE) or DeletedMetadata
Entry(comps, deleted) ==
    [path_lower |-> JoinPath(comps), name |-> comps[Len(comps)], deleted |-> deleted]

Change(action, filename) == [action |-> action, filename |-> filename]

\* mutant: the separator is not appended to the scope path
PrefixNdirpathBare(ndirpath) == ndirpath

\* ndirpath + ("" if ndirpath == "/" else "/")
PrefixNdirpath(ndirpath) == ndirpath \o (IF ndirpath = <<Slash>> THEN <<>> ELSE <<Slash>>)

\* mutant: an entry at the scope path itself passes the tests
EntryMatchesOrSelf(dir_handle, watch_tree, entry) ==
    LET prefix_ndirpath == PrefixNdirpath(dir_handle.path_lower)
    IN  \/ entry.path_lower = dir_handle.path_lower
        \/ /\ StartsWith(entry.path_lower, prefix_ndirpath)
           /\ ~ (~watch_tree /\
                 Find(SliceFrom(entry.path_lower, Len(prefix_ndirpath)), Slash) # -1)

\* the two `continue` tests of the entry loop, negated
EntryMatches(dir_handle, watch_tree, entry) ==
    LET prefix_ndirpath == PrefixNdirpath(dir_handle.path_lower)
    IN  /\ StartsWith(entry.path_lower, prefix_ndirpath)
        /\ ~ (~watch_tree /\
              Find(SliceFrom(entry.path_lower, Len(prefix_ndirpath)), Slash) # -1)

\* mutant: the two actions the wrong way round
EntryActionSwapped(entry) == IF entry.deleted THEN "modified" ELSE "removed"

\* action = "removed" if DeletedMetadata else "modified"
EntryAction(entry) == IF entry.deleted THEN "removed" ELSE "modified"

\* the list to_sub built for one registration from res.entries
ToSub(dir_handle, watch_tree, entries) ==
    LET sel == SelectSeq(entries, LAMBDA e : EntryMatches(dir_handle, watch_tree, e))
    IN  [i \in 1..Len(sel) |-> Change(EntryAction(sel[i]), sel[i].name)]

\* ------------------------------------------------------------------ registry
CbIds == {1}
FILE_NOTIFY_CHANGE_FILE_NAME == 1
CompletionFilters == {FILE_NOTIFY_CHANGE_FILE_NAME}
WatchPath == JoinPath(<< <<"b">> >>)
WatchHandles == {Open(WatchPath), OpenDirectory(WatchPath)}

\* tag = (cb, dir_handle, completion_filter, watch_tree)
Tag(cb, dir_handle, completion_filter, watch_tree) ==
    [cb |-> cb, dir_handle |-> dir_handle,
     completion_filter |-> completion_filter, watch_tree |-> watch_tree]

Tags == { Tag(cb, h, f, t) : cb \in CbIds, h \in {Open(WatchPath)},
                             f \in CompletionFilters, t \in BOOLEAN }

\* isinstance(dir_handle, _File)
IsFileInstance(dir_handle) == dir_handle.cls = "_File"

\* mutant: stop() as a no-op
ListRemoveNoop(list, x) == list

\* mutant: every element equal to x is dropped
ListRemoveAll(list, x) == SelectSeq(list, LAMBDA y : y # x)

\* list.remove(x): drops the first element equal to x
ListRemove(list, x) ==
    LET i == CHOOSE k \in 1..Len(list) : list[k] = x /\ \A j \in 1..(k-1) : list[j] # x
    IN  SubSeq(list, 1, i - 1) \o SubSeq(list, i + 1, Len(list))

\* create_watch with a handle that passes the isinstance test; the with block
\* (acquire, append, release) is one step of the calling thread
CreateWatchOk(cb, dir_handle, completion_filter, watch_tree) ==
    LET tag == Tag(cb, dir_handle, completion_filter, watch_tree) IN
    /\ IsFileInstance(dir_handle)
    /\ Len(watches) < MaxWatches
    /\ lock = "free"
    /\ watches' = Append(watches, tag)
    /\ live' = [live EXCEPT ![tag] = @ + 1]
    /\ cw' = [cls |-> dir_handle.cls, status |-> "ok",
              added |-> Len(watches') - Len(watches)]
    /\ UNCHANGED <<lock, stopLeft, pollVars, matchVars, dirVars, fileVars>>

\* create_watch raising OSError(EINVAL)
CreateWatchInvalid(cb, dir_handle, completion_filter, watch_tree) ==
    /\ ~IsFileInstance(dir_handle)
    /\ cw' = [cls |-> dir_handle.cls, status |-> "EINVAL", added |-> 0]
    /\ UNCHANGED <<watches, live, lock, stopLeft, pollVars, matchVars, dirVars, fileVars>>

\* the number of elements of list equal to x
Count(list, x) == Cardinality({ k \in 1..Len(list) : list[k] = x })

\* the stop() closure returned for `tag`, called at most once per capability;
\* the with block (acquire, remove, release) is one step of the calling thread
Stop(tag) ==
    /\ live[tag] > 0
    /\ \E k \in 1..Len(watches) : watches[k] = tag
    /\ lock = "free"
    /\ watches' = ListRemove(watches, tag)
    /\ live' = [live EXCEPT ![tag] = @ - 1]
    /\ stopLeft' = Count(watches', tag)
    /\ UNCHANGED <<cw, lock, pollVars, matchVars, dirVars, fileVars>>

\* ------------------------------------------------------------------ delta_thread
FeedChild == Entry(<< <<"b">>, <<"b">> >>, FALSE)
FeedDeep == Entry(<< <<"b">>, <<"b">>, <<"b", "c">> >>, TRUE)
FeedSibling == Entry(<< <<"b", "c">> >>, FALSE)
FeedGone == Entry(<< <<"b">>, <<"b">> >>, TRUE)
FeedNested == Entry(<< <<"b">>, <<"b">>, <<"b", "c">> >>, FALSE)

\* the values res.entries takes in the model
Batches == { <<>>, <<FeedChild>>, <<FeedDeep, FeedSibling>>, <<FeedDeep, FeedChild>>,
             <<FeedGone, FeedNested>> }

\* the locals res, watches and the loop position while they hold nothing that is
\* read again (before the first fetch, and after the thread has ended)
NoRes == [entries |-> <<>>, cursor |-> None, has_more |-> FALSE]

RECURSIVE LoopHead(_, _, _, _)
\* where the `for ... in watches` loop stops next, from the top of iteration i:
\* at the cb('reset') call, at the cb(to_sub) call, or after the loop
LoopHead(i, copy, reset, entries) ==
    IF i > Len(copy) THEN [pc |-> "finish", idx |-> i]
    ELSE IF reset THEN [pc |-> "call_reset", idx |-> i]
    ELSE IF ToSub(copy[i].dir_handle, copy[i].watch_tree, entries) # <<>>
         THEN [pc |-> "call_changes", idx |-> i]
    ELSE LoopHead(i + 1, copy, reset, entries)

\* after cb('reset') returned for iteration i
AfterReset(i, copy, reset, entries) ==
    IF ToSub(copy[i].dir_handle, copy[i].watch_tree, entries) # <<>>
    THEN [pc |-> "call_changes", idx |-> i]
    ELSE LoopHead(i + 1, copy, reset, entries)

\* the thread's frame is gone once an exception has left delta_thread
ThreadEnds(e) ==
    /\ pc' = "dead"
    /\ exc' = e
    /\ res' = NoRes
    /\ watchesCopy' = <<>>
    /\ idx' = 0
    /\ copyAfterStop' = FALSE
    /\ calls' = <<>>

\* the record of one callback call: cb('reset') or cb(to_sub), made for the
\* registration at position i of the copy
Call(i, reset, to_sub) == [i |-> i, reset |-> reset, to_sub |-> to_sub]

\* lines 140-142 without an exception: the cursor is fetched when there is none,
\* then the batch that follows it
PollOk ==
    /\ pc = "poll"
    /\ \E c \in 0..(MaxCursor - 1), b \in Batches, more \in BOOLEAN :
          /\ cursor # None => c = cursor
          /\ cursor' = c
          /\ res' = [entries |-> b, cursor |-> c + 1, has_more |-> more]
          /\ fetchLog' = IF cursor = None THEN <<c>> ELSE Append(fetchLog, c)
    /\ pc' = "snapshot"
    /\ UNCHANGED <<needs_reset, watchesCopy, idx, exc, owedReset, copyAfterStop, calls, regVars, matchVars, dirVars, fileVars>>

\* mutant: the handler drops the cursor without asking for a reset
NeedsResetOnErrorKept(invalidated, reset) == reset

\* lines 144-146: needs_reset after the except block
NeedsResetOnError(invalidated, reset) == invalidated \/ reset

\* lines 140-148: an exception from get_latest_cursor (only called without a
\* cursor) or from list_folder_continue; invalidated: it is a ListFolderContinueError
PollFail(stage, invalidated) ==
    /\ pc = "poll"
    /\ stage = "get_latest_cursor" => cursor = None
    /\ \E c \in 0..MaxCursor :
          LET got == IF stage = "get_latest_cursor" THEN None
                     ELSE IF cursor = None THEN c ELSE cursor
          IN  /\ (stage = "get_latest_cursor" \/ cursor # None \/ invalidated) => c = 0
              /\ cursor' = IF invalidated THEN None ELSE got
    /\ needs_reset' = NeedsResetOnError(invalidated, needs_reset)
    /\ owedReset' = (invalidated \/ owedReset)
    /\ fetchLog' = IF invalidated \/ cursor = None THEN <<>> ELSE fetchLog
    /\ pc' = "backoff"
    /\ UNCHANGED <<res, watchesCopy, idx, exc, copyAfterStop, calls, regVars, matchVars, dirVars, fileVars>>

\* line 150: time.sleep(60); the module never imports time, so the name lookup
\* raises NameError inside the except block and the thread ends
Backoff ==
    /\ pc = "backoff"
    /\ ThreadEnds("NameError")
    /\ UNCHANGED <<cursor, needs_reset, owedReset, fetchLog, regVars, matchVars, dirVars, fileVars>>

\* line 153: `with dbfs._watches_lock:` acquires the lock
AcquireLock ==
    /\ pc = "snapshot"
    /\ lock = "free"
    /\ lock' = "poller"
    /\ pc' = "locked"
    /\ UNCHANGED <<cursor, needs_reset, res, watchesCopy, idx, exc, owedReset,
                   copyAfterStop, calls, fetchLog, watches, live, cw, stopLeft, matchVars, dirVars, fileVars>>

\* mutant: the delivery loop runs inside the with block
LockKeptForDelivery == "poller"

\* the holder of the lock once the with block of lines 153-154 is left
LockAfterSnapshot == "free"

\* line 154: copy the registry, and leave the with block
Snapshot ==
    /\ pc = "locked"
    /\ watchesCopy' = watches
    /\ copyAfterStop' = (stopLeft # None)
    /\ lock' = LockAfterSnapshot
    /\ LET nxt == LoopHead(1, watches, needs_reset, res.entries)
       IN  pc' = nxt.pc /\ idx' = nxt.idx
    /\ UNCHANGED <<cursor, needs_reset, res, exc, owedReset, calls, fetchLog,
                   watches, live, cw, stopLeft, matchVars, dirVars, fileVars>>

\* line 158: cb('reset') returns
CallResetOk ==
    /\ pc = "call_reset"
    /\ LET nxt == AfterReset(idx, watchesCopy, needs_reset, res.entries)
       IN  pc' = nxt.pc /\ idx' = nxt.idx
    /\ calls' = Append(calls, Call(idx, TRUE, <<>>))
    /\ UNCHANGED <<cursor, needs_reset, res, watchesCopy, exc, owedReset, copyAfterStop, fetchLog, regVars, matchVars, dirVars, fileVars>>

\* line 158: cb('reset') raises; no try encloses the call, the thread ends
CallResetRaises ==
    /\ pc = "call_reset"
    /\ ThreadEnds("CallbackError")
    /\ UNCHANGED <<cursor, needs_reset, owedReset, fetchLog, regVars, matchVars, dirVars, fileVars>>

\* lines 180-184: cb(to_sub), returning or raising into the bare except
CallChanges(raises) ==
    /\ pc = "call_changes"
    /\ LET nxt == LoopHead(idx + 1, watchesCopy, needs_reset, res.entries)
       IN  pc' = nxt.pc /\ idx' = nxt.idx
    /\ calls' = Append(calls, Call(idx, FALSE,
                    ToSub(watchesCopy[idx].dir_handle, watchesCopy[idx].watch_tree, res.entries)))
    /\ UNCHANGED <<cursor, needs_reset, res, watchesCopy, exc, owedReset, copyAfterStop, fetchLog, regVars, matchVars, dirVars, fileVars>>

\* lines 186-189 with res.has_more: next iteration of the while loop
FinishMore ==
    /\ pc = "finish"
    /\ res.has_more
    /\ needs_reset' = FALSE
    /\ owedReset' = FALSE
    /\ cursor' = res.cursor
    /\ pc' = "poll"
    /\ res' = NoRes
    /\ watchesCopy' = <<>>
    /\ idx' = 0
    /\ copyAfterStop' = FALSE
    /\ calls' = <<>>
    /\ UNCHANGED <<exc, fetchLog, regVars, matchVars, dirVars, fileVars>>

\* lines 186-191 without res.has_more: time.sleep(30) raises NameError
FinishSleep ==
    /\ pc = "finish"
    /\ ~res.has_more
    /\ needs_reset' = FALSE
    /\ owedReset' = FALSE
    /\ cursor' = res.cursor
    /\ ThreadEnds("NameError")
    /\ UNCHANGED <<fetchLog, regVars, matchVars, dirVars, fileVars>>

\* ------------------------------------------------------------------ scope matching on drawn inputs
\* the body of the `for entry in res.entries` loop, applied to one registration
MatchApply ==
    /\ ~m_done
    /\ m_out' = ToSub(m_handle, m_tree, m_entries)
    /\ m_done' = TRUE
    /\ UNCHANGED <<m_handle, m_tree, m_entries, regVars, pollVars, dirVars, fileVars>>

\* ------------------------------------------------------------------ _Directory
\* a directory entry as the backend lists it; name is its position in the listing
DirEntry(name, kind, server_modified) ==
    [name |-> name, kind |-> kind, server_modified |-> server_modified]

\* _md_to_stat: a folder's mtime is the clock, a file's is its client_modified
MdToStat(f, client_modified, clock) ==
    [name |-> f.name,
     type |-> IF f.kind = "folder" THEN "directory" ELSE "file",
     mtime |-> IF f.kind = "folder" THEN clock ELSE client_modified]

\* mutant: the boundary test lets a file one tick newer than start through
IsNewerLate(f, start) == f.kind = "file" /\ f.server_modified > start + 1

\* isinstance(f, FileMetadata) and f.server_modified > start
IsNewer(f, start) == f.kind = "file" /\ f.server_modified > start

\* mutant: the saved page cursor survives the start of a new enumeration
StartCursorKept(cur) == cur

\* line 54: self._cursor = None when the generator body starts
StartCursor(cur) == None

\* the backend's answer to files_list_folder (cur = None) or
\* files_list_folder_continue(cur): a page, its cursor and has_more
FetchPage(listing, cur) ==
    LET p == IF cur = None THEN 1 ELSE cur + 1
    IN  IF p <= Len(listing)
        THEN [entries |-> listing[p], cursor |-> p, has_more |-> p < Len(listing)]
        ELSE [entries |-> <<>>, cursor |-> cur, has_more |-> FALSE]

\* the generator frame: its position, the local `start`, and the local `res`
\* kept as the cursor that fetched it (res = FetchPage(listing, frame.res))
NewGen == [st |-> "new", start |-> None, res |-> None, pos |-> 0]
DoneGen(start) == [st |-> "done", start |-> start, res |-> None, pos |-> 0]
\* the generator after an exception left it: finished as well
RaisedGen(start) == [st |-> "raised", start |-> start, res |-> None, pos |-> 0]

RECURSIVE GenLoop(_, _, _, _, _, _, _)
\* the while loop of __it from the top, then the for loop over res.entries:
\* runs to the next yield, to the end of the generator, or to a failing fetch.
\* budget: how many more fetches the backend answers; fetched: fetches so far
GenFetch(listing, start, cur, budget, fetched) ==
    IF budget = 0
    THEN [gen |-> RaisedGen(start), cursor |-> cur, kind |-> "error", entry |-> None,
          fetched |-> fetched]
    ELSE GenLoop(listing, start, cur, 1, cur, budget - 1, fetched + 1)

\* the for loop over res.entries from position i, and what follows it;
\* from: the cursor res was fetched with, cur: self._cursor
GenLoop(listing, start, from, i, cur, budget, fetched) ==
    LET page == FetchPage(listing, from) IN
    IF i > Len(page.entries)
    THEN IF ~page.has_more
         THEN [gen |-> DoneGen(start), cursor |-> page.cursor, kind |-> "end",
               entry |-> None, fetched |-> fetched]
         ELSE GenFetch(listing, start, page.cursor, budget, fetched)
    ELSE IF page.entries[i].kind = "deleted"
         THEN GenLoop(listing, start, from, i + 1, cur, budget, fetched)
    ELSE IF IsNewer(page.entries[i], start)
         THEN [gen |-> DoneGen(start), cursor |-> page.cursor, kind |-> "end",
               entry |-> None, fetched |-> fetched]
    ELSE [gen |-> [st |-> "suspended", start |-> start, res |-> from, pos |-> i],
          cursor |-> cur, kind |-> "stat", entry |-> page.entries[i].name,
          fetched |-> fetched]

\* mutant: a generator that is over runs its while loop again
GenNextRefetch(listing, g, cur, clock, budget) ==
    IF g.st = "new" THEN GenFetch(listing, clock, StartCursor(cur), budget, 0)
    ELSE IF g.st = "suspended"
         THEN GenLoop(listing, g.start, g.res, g.pos + 1, cur, budget, 0)
    ELSE GenFetch(listing, g.start, cur, budget, 0)

\* next(self._md): start the generator, resume it after its yield, or find it over
GenNext(listing, g, cur, clock, budget) ==
    IF g.st = "new" THEN GenFetch(listing, clock, StartCursor(cur), budget, 0)
    ELSE IF g.st = "suspended"
         THEN GenLoop(listing, g.start, g.res, g.pos + 1, cur, budget, 0)
    ELSE [gen |-> g, cursor |-> cur, kind |-> "end", entry |-> None, fetched |-> 0]

\* the entry of the listing with the given name
EntryNamed(listing, name) ==
    CHOOSE e \in UNION { { listing[p][i] : i \in 1..Len(listing[p]) } : p \in 1..Len(listing) } :
        e.name = name

NoLast == [kind |-> "none", stat |-> None, fetched |-> 0]

DirReadResult(r, client_modified) ==
    /\ gen' = r.gen
    /\ d_cursor' = r.cursor
    /\ d_last' = [kind |-> r.kind,
                  stat |-> IF r.kind = "stat"
                           THEN MdToStat(EntryNamed(d_listing, r.entry), client_modified, now)
                           ELSE None,
                  fetched |-> r.fetched]
    /\ d_out' = IF r.kind = "stat" THEN Append(d_out, r.entry) ELSE d_out
    /\ d_ordered' = (d_ordered /\ (gen.st = "new" => r.gen.start >= d_prevStart))
    /\ d_prevStart' = IF gen.st = "new" THEN None ELSE d_prevStart
    /\ UNCHANGED <<d_listing, now, d_seen, regVars, pollVars, matchVars, fileVars>>

\* _Directory.read() with every backend call answered: a stat record, or None
\* at the end of the sequence
DirRead ==
    LET r == GenNext(d_listing, gen, d_cursor, now, Len(d_listing) + 1)
        isFile == r.kind = "stat" /\ EntryNamed(d_listing, r.entry).kind = "file"
    IN  \E client_modified \in 0..(IF isFile THEN MaxTime ELSE 0) :
            DirReadResult(r, client_modified)

\* _Directory.read() with the backend failing the (budget+1)-th fetch of this
\* call: the exception leaves the generator and read()
DirReadFails ==
    \E budget \in 0..Len(d_listing) :
        LET r == GenNext(d_listing, gen, d_cursor, now, budget)
        IN  /\ r.kind = "error"
            /\ DirReadResult(r, 0)

\* _Directory.reset(): a new generator, not started yet
DirReset ==
    /\ gen' = NewGen
    /\ d_seen' = d_seen \cup { d_out[i] : i \in 1..Len(d_out) }
    /\ d_out' = <<>>
    /\ d_prevStart' = IF gen.st = "new" THEN d_prevStart ELSE gen.start
    /\ d_last' = NoLast
    /\ UNCHANGED <<d_listing, now, d_cursor, d_ordered, regVars, pollVars, matchVars, fileVars>>

\* the clock advances
Tick ==
    /\ now < MaxTime
    /\ now' = now + 1
    /\ UNCHANGED <<d_listing, d_cursor, gen, d_last, d_out, d_seen, d_prevStart, d_ordered,
                   regVars, pollVars, matchVars, fileVars>>

\* ------------------------------------------------------------------ _File
Bytes == {0, 1}

\* the backend's get_file(path, start=offset, length=length).read()
ReadBytes(content, offset, length) ==
    LET last == IF length = None THEN Len(content)
                ELSE IF offset + length < Len(content) THEN offset + length
                ELSE Len(content)
    IN  SubSeq(content, offset + 1, last)

NoCall == [op |-> "none", size |-> 0, at |-> 0, kind |-> "none", data |-> <<>>]

\* mutant: the handler never recognises the directory error and re-raises it
PreadKindReraised(isdir, backendFails) ==
    IF isdir \/ backendFails THEN "error" ELSE "bytes"

\* lines 103-110: how pread ends; for a directory the backend raises ErrorResponse
\* "Path is a directory", which the handler turns into OSError(EISDIR); any other
\* exception leaves pread as it is
PreadKind(isdir, backendFails) ==
    IF isdir THEN "EISDIR"
    ELSE IF backendFails THEN "error" ELSE "bytes"

\* _File.pread(offset, size): the bytes, EISDIR for a directory, or the backend's error
FilePread(offset, size) ==
    /\ \E backendFails \in BOOLEAN :
          f_last' = [op |-> "pread", size |-> size, at |-> offset,
                     kind |-> PreadKind(f_isdir, backendFails),
                     data |-> IF f_isdir \/ backendFails THEN <<>>
                              ELSE ReadBytes(f_content, offset,
                                             IF size >= 0 THEN size ELSE None)]
    /\ UNCHANGED <<f_content, f_isdir, f_offset, regVars, pollVars, matchVars, dirVars>>

\* _File.read(size): line 113 names `offset`, which is neither a local nor a
\* global, so NameError is raised before pread is called
FileRead(size) ==
    /\ f_last' = [op |-> "read", size |-> size, at |-> f_offset,
                  kind |-> "NameError", data |-> <<>>]
    /\ UNCHANGED <<f_content, f_isdir, f_offset, regVars, pollVars, matchVars, dirVars>>

\* _File.readall(): self.read()
FileReadall ==
    /\ f_last' = [op |-> "readall", size |-> -1, at |-> f_offset,
                  kind |-> "NameError", data |-> <<>>]
    /\ UNCHANGED <<f_content, f_isdir, f_offset, regVars, pollVars, matchVars, dirVars>>

\* ------------------------------------------------------------------ specifications
MatchIdle ==
    /\ m_handle = File(<<Slash>>)
    /\ m_tree = FALSE
    /\ m_entries = <<>>
    /\ m_out = <<>>
    /\ m_done = FALSE

\* FileSystem.__init__: empty registry, delta_thread started
InitFileSystem ==
    /\ watches = <<>>
    /\ live = [t \in Tags |-> 0]
    /\ cw = [cls |-> "none", status |-> "none", added |-> 0]
    /\ lock = "free"
    /\ stopLeft = None
    /\ pc = "poll"
    /\ cursor = None
    /\ needs_reset = TRUE
    /\ res = NoRes
    /\ watchesCopy = <<>>
    /\ idx = 0
    /\ exc = "none"
    /\ owedReset = FALSE
    /\ copyAfterStop = FALSE
    /\ calls = <<>>
    /\ fetchLog = <<>>

DirIdle ==
    /\ d_listing = << <<>> >>
    /\ now = 0
    /\ d_cursor = None
    /\ gen = NewGen
    /\ d_last = NoLast
    /\ d_out = <<>>
    /\ d_seen = {}
    /\ d_prevStart = None
    /\ d_ordered = TRUE

FileIdle ==
    /\ f_content = <<>>
    /\ f_isdir = FALSE
    /\ f_offset = 0
    /\ f_last = NoCall

Init ==
    /\ InitFileSystem
    /\ MatchIdle
    /\ DirIdle
    /\ FileIdle

Next ==
    \/ \E cb \in CbIds, h \in WatchHandles, f \in CompletionFilters, t \in BOOLEAN :
          CreateWatchOk(cb, h, f, t)
    \/ \E cb \in CbIds, h \in WatchHandles, f \in CompletionFilters, t \in BOOLEAN :
          CreateWatchInvalid(cb, h, f, t)
    \/ \E tag \in Tags : Stop(tag)
    \/ PollOk
    \/ \E stage \in {"get_latest_cursor", "list_folder_continue"}, inv \in BOOLEAN :
          PollFail(stage, inv)
    \/ Backoff
    \/ AcquireLock
    \/ Snapshot
    \/ CallResetOk
    \/ CallResetRaises
    \/ \E raises \in BOOLEAN : CallChanges(raises)
    \/ FinishMore
    \/ FinishSleep

\* the file system with its poller and the threads calling create_watch and stop
Spec == Init /\ [][Next]_vars

MatchEntries ==
    { Entry(c, d) : c \in (CompSeqs(MaxDepth) \ {<<>>}), d \in BOOLEAN }

InitMatch ==
    /\ InitFileSystem
    /\ DirIdle
    /\ FileIdle
    /\ m_handle \in { Open(JoinPath(c)) : c \in CompSeqs(MaxDepth - 1) }
    /\ m_tree \in BOOLEAN
    /\ m_entries \in UNION { [1..k -> MatchEntries] : k \in 0..MaxMatchBatch }
    /\ m_out = <<>>
    /\ m_done = FALSE

NextMatch == MatchApply

\* the poller's scope matching applied to every drawn scope, flag and batch
SpecMatch == InitMatch /\ [][NextMatch]_vars

\* kind and server_modified of an entry (only a file carries a server_modified)
DirEntryShapes ==
    { <<"folder", 0>>, <<"deleted", 0>> } \cup { <<"file", t>> : t \in 0..MaxTime }

\* the entries of a directory in listing order, named by position
DirContents ==
    UNION { { [i \in 1..n |-> DirEntry(i, sh[i][1], sh[i][2])] : sh \in [1..n -> DirEntryShapes] } :
            n \in 0..MaxEntries }

RECURSIVE SplitPages(_, _, _)
\* the listing cut into pages after the positions in breaks
SplitPages(entries, breaks, from) ==
    IF \E b \in breaks : b >= from
    THEN LET b == CHOOSE x \in breaks : x >= from /\ \A y \in breaks : y >= from => x <= y
         IN  <<SubSeq(entries, from, b)>> \o SplitPages(entries, breaks, b + 1)
    ELSE <<SubSeq(entries, from, Len(entries))>>

\* _Directory.__init__ on a directory with any contents, in any order, paged in any way
InitDir ==
    /\ InitFileSystem
    /\ MatchIdle
    /\ FileIdle
    /\ d_listing \in UNION { { SplitPages(e, B, 1) : B \in SUBSET (1..(Len(e) - 1)) } :
                             e \in DirContents }
    /\ now = 0
    /\ d_cursor = None
    /\ gen = NewGen
    /\ d_last = NoLast
    /\ d_out = <<>>
    /\ d_seen = {}
    /\ d_prevStart = None
    /\ d_ordered = TRUE

NextDir ==
    \/ DirRead
    \/ DirReadFails
    \/ DirReset
    \/ Tick

\* one directory handle, read and reset by its owner while the clock advances
SpecDir == InitDir /\ [][NextDir]_vars

\* _File.__init__ on a path that names a file with any content, or a directory
InitFile ==
    /\ InitFileSystem
    /\ MatchIdle
    /\ DirIdle
    /\ f_isdir \in BOOLEAN
    /\ f_content \in UNION { [1..n -> Bytes] : n \in 0..MaxFileLen }
    /\ f_isdir => f_content = <<>>
    /\ f_offset = 0
    /\ f_last = NoCall

NextFile ==
    \/ \E offset \in 0..(MaxFileLen + 1), size \in -1..MaxFileLen : FilePread(offset, size)
    \/ \E size \in -1..MaxFileLen : FileRead(size)
    \/ FileReadall

\* one file handle and the calls of its owner
SpecFile == InitFile /\ [][NextFile]_vars

\* ------------------------------------------------------------------ claims: poller and registry

\* C1: once stop() has returned for a watch, no callback invocation for that watch
\* begins: whenever delta_thread stands at a cb(...) call, some create_watch call
\* with that registration's tag has a stop() that has not returned.
C1_NoCallbackAfterStop ==
    pc \in {"call_reset", "call_changes"} => live[watchesCopy[idx]] > 0

\* C2: after a ListFolderContinueError every registered watch receives the reset
\* signal: delta_thread never ends while a reset is owed to a registered watch.
C2_ResetAfterInvalidation ==
    ~ (owedReset /\ watches # <<>> /\ pc = "dead")

\* C3: an error raised by a callback (on the reset signal or on a change list) is
\* caught: delta_thread is never ended by an exception raised in a callback.
C3_CallbackErrorCaught ==
    exc # "CallbackError"

\* C4: the poller loop never terminates: delta_thread is live in every state.
C4_PollerNeverTerminates ==
    pc # "dead"

\* C6: create_watch fails with EINVAL, leaving the registry unchanged, exactly when
\* the handle is not a directory handle; with a handle from open_directory it
\* succeeds and adds exactly one registration.
C6_CreateWatchHandleCheck ==
    cw.status # "none" =>
        /\ (cw.status = "EINVAL") <=> (cw.cls # "_Directory")
        /\ cw.status = "EINVAL" => cw.added = 0
        /\ cw.status = "ok" => cw.added = 1

\* ------------------------------------------------------------------ claims: scope matching
RECURSIVE Components(_)
\* the components of an absolute path: the text between its separators
Components(path) ==
    IF Len(path) <= 1 THEN <<>>
    ELSE LET rest == SliceFrom(path, 1)
             cut == Find(rest, Slash)
         IN  IF cut = -1 THEN <<rest>>
             ELSE <<SubSeq(rest, 1, cut)>> \o Components(SliceFrom(rest, cut))

\* P lies strictly below directory S
Below(S, P) ==
    LET cs == Components(S)
        cp == Components(P)
    IN  Len(cs) < Len(cp) /\ SubSeq(cp, 1, Len(cs)) = cs

\* P is a direct child of directory S
DirectChild(S, P) == Below(S, P) /\ Len(Components(P)) = Len(Components(S)) + 1

InScope(S, tree, P) == DirectChild(S, P) \/ (tree /\ Below(S, P))

\* C5: a change below the scope directory is delivered if it is a direct child,
\* a deeper descendant exactly when the watch is recursive, and a change that is
\* not below the scope (a sibling sharing the name prefix included) never; also
\* for the root scope. The delivered list holds exactly the in-scope changes.
C5_ScopeMatching ==
    m_done =>
        LET sel == SelectSeq(m_entries,
                             LAMBDA e : InScope(m_handle.path_lower, m_tree, e.path_lower))
        IN  m_out = [i \in 1..Len(sel) |->
                        Change(IF sel[i].deleted THEN "removed" ELSE "modified", sel[i].name)]

\* a non-recursive watch on /b was offered the sibling /bc, or a change two
\* levels down, and delivered nothing
C5_Witness ==
    /\ m_done
    /\ m_handle.path_lower = <<Slash, "b">>
    /\ ~m_tree
    /\ Len(m_entries) = 1
    /\ m_entries[1].path_lower \in { <<Slash, "b", "c">>, <<Slash, "b", Slash, "b", Slash, "b">> }
    /\ m_out = <<>>

\* ------------------------------------------------------------------ claims: directory iterator
RECURSIVE Flat(_)
\* the pages of a listing laid end to end
Flat(listing) ==
    IF listing = <<>> THEN <<>> ELSE Head(listing) \o Flat(Tail(listing))

\* the names a complete enumeration with boundary T gives: the entries that are
\* not tombstones, up to the first file modified after T
ExpectedNames(listing, T) ==
    LET flat == Flat(listing)
        late == { i \in 1..Len(flat) : flat[i].kind = "file" /\ flat[i].server_modified > T }
        cut == IF late = {} THEN Len(flat)
               ELSE (CHOOSE i \in late : \A j \in late : i <= j) - 1
        kept == SelectSeq(SubSeq(flat, 1, cut), LAMBDA f : f.kind # "deleted")
    IN  [i \in 1..Len(kept) |-> kept[i].name]

IsPrefix(a, b) == Len(a) <= Len(b) /\ SubSeq(b, 1, Len(a)) = a

\* C7: read() never returns a file whose modification time (server_modified, the
\* time __it compares) is after the boundary `start` of the running enumeration,
\* however the entries are ordered and paged, and `start` stays the same from
\* the first read() of an enumeration until the next reset().
C7_NeverYieldsNewer ==
    /\ [](d_last.kind = "stat" /\ d_last.stat.type = "file"
            => EntryNamed(d_listing, d_last.stat.name).server_modified <= gen.start)
    /\ [][(gen.st # "new" /\ gen'.st # "new") => gen'.start = gen.start]_vars

\* read() returned a file from the second page of a listing that holds a file
\* newer than the boundary
C7_Witness ==
    /\ Len(d_listing) >= 2
    /\ gen.st = "suspended"
    /\ gen.res = 1
    /\ d_last.kind = "stat"
    /\ d_last.stat.type = "file"
    /\ \E i \in 1..Len(Flat(d_listing)) :
          /\ Flat(d_listing)[i].kind = "file"
          /\ Flat(d_listing)[i].server_modified > gen.start

\* C8 as stated: every enumeration takes a boundary >= the one before it, and no
\* read() after a reset() returns an entry a read() before that reset() returned.
C8_ResetNoReplay ==
    /\ d_ordered
    /\ d_last.kind = "stat" => d_last.stat.name \notin d_seen

\* C8 amended: every enumeration takes a boundary >= the one before it, and it
\* starts again at the first entry of the directory: what read() has returned
\* since the last reset() is, in listing order, a prefix of the entries that are
\* not tombstones and precede the first file newer than the new boundary,
\* entries returned before the reset included.
C8_ResetRestarts ==
    /\ d_ordered
    /\ gen.st # "new" => IsPrefix(d_out, ExpectedNames(d_listing, gen.start))

\* after a reset() at a later boundary, read() returned again an entry it had
\* returned before the reset
C8_Witness ==
    /\ d_last.kind = "stat"
    /\ d_last.stat.name \in d_seen
    /\ Len(d_out) >= 2
    /\ gen.start >= 1

C10_ReadAdvancesOffset ==
    f_last.op \in {"read", "readall"} =>
        /\ f_last.kind \in {"bytes", "EISDIR", "error"}
        /\ f_last.kind = "bytes" =>
              /\ f_last.data = ReadBytes(f_content, f_last.at,
                                         IF f_last.size >= 0 THEN f_last.size ELSE None)
              /\ f_offset = f_last.at + Len(f_last.data)

\* ------------------------------------------------------------------ claims: registry lock and snapshot
\* C11: the copy of the registry the poller takes holds no registration whose
\* stop() has returned (for each tag, no more entries than registrations still
\* live), whatever create_watch and stop calls came before; and while the poller
\* holds the registry lock for its copy, no create_watch or stop changes the registry.
C11_SnapshotExcludesStopped ==
    /\ [][(pc = "locked" /\ pc' # "locked")
             => \A t \in Tags : Count(watchesCopy', t) <= live[t]]_vars
    /\ [][lock = "poller" => (watches' = watches /\ live' = live)]_vars

\* the poller delivers from a non-empty copy that it took after a stop() had returned
C11_Witness ==
    /\ copyAfterStop
    /\ watchesCopy # <<>>
    /\ pc \in {"call_reset", "call_changes"}

\* C12: the poller holds the registry lock in no state in which it fetches from
\* the backend, sleeps, or calls a watch callback (nor after it has ended); so in
\* every state in which a callback is being called, a stop() of any registered
\* watch and a create_watch can take the lock and complete.
C12_NoLockDuringCallback ==
    pc \in {"poll", "backoff", "call_reset", "call_changes", "finish", "dead"} =>
        /\ lock # "poller"
        /\ pc \in {"call_reset", "call_changes"} =>
              /\ \A t \in Tags : (live[t] > 0 /\ Count(watches, t) > 0) => ENABLED Stop(t)
              /\ Len(watches) < MaxWatches =>
                    \A t \in Tags : ENABLED CreateWatchOk(t.cb, t.dir_handle,
                                                          t.completion_filter, t.watch_tree)

\* a stop() has returned while the poller was delivering from a copy taken before
\* it, and the delivery goes on
C12_Witness ==
    /\ pc = "call_changes"
    /\ calls # <<>>
    /\ ~copyAfterStop
    /\ stopLeft # None
    /\ Len(watches) < Len(watchesCopy)

C14_ScopeCoversItself ==
    m_done =>
        \A i \in 1..Len(m_entries) :
            m_entries[i].path_lower = m_handle.path_lower =>
                \E j \in 1..Len(m_out) :
                    m_out[j] = Change(IF m_entries[i].deleted THEN "removed" ELSE "modified",
                                      m_entries[i].name)

\* C14 amended: a change whose path equals the watch's scope directory path is
\* never delivered, recursive watch or not: the delivered list is the one the
\* batch gives with every such change taken out of it.
C14_ScopeExcludesItself ==
    m_done =>
        m_out = ToSub(m_handle, m_tree,
                      SelectSeq(m_entries, LAMBDA e : e.path_lower # m_handle.path_lower))

\* a recursive watch was offered a change at its own scope path and delivered nothing
C14_Witness ==
    /\ m_done
    /\ m_tree
    /\ Len(m_entries) = 1
    /\ m_entries[1].path_lower = m_handle.path_lower
    /\ m_out = <<>>

\* ------------------------------------------------------------------ claims: delivery cycle
\* the change list the claims expect for a registration: the changes of the batch
\* that lie in the registration's scope, in feed order
ExpectedToSub(tag, entries) ==
    LET sel == SelectSeq(entries,
                         LAMBDA e : InScope(tag.dir_handle.path_lower, tag.watch_tree, e.path_lower))
    IN  [k \in 1..Len(sel) |->
            Change(IF sel[k].deleted THEN "removed" ELSE "modified", sel[k].name)]

\* the calls with a change list made for position i of the copy
ListCallsFor(i) == SelectSeq(calls, LAMBDA c : c.i = i /\ ~c.reset)

\* C15: when the poller leaves the processing of a fetched batch (for the next
\* fetch, or for good), every registration of the copy taken for that batch whose
\* scope holds a change of the batch has been called exactly once with a change
\* list, the list of exactly those changes in feed order, and every other
\* registration has not been called with a change list.
C15_ExactlyOnceDelivery ==
    [][(pc \in {"call_reset", "call_changes", "finish"} /\ pc' \in {"poll", "dead"}) =>
          \A i \in 1..Len(watchesCopy) :
              LET exp == ExpectedToSub(watchesCopy[i], res.entries)
              IN  ListCallsFor(i) = IF exp # <<>> THEN <<Call(i, FALSE, exp)>> ELSE <<>>]_vars

\* C16: every change in a list passed to a callback has action "removed" exactly
\* when its feed entry is a tombstone and "modified" otherwise ("added" never),
\* and carries the entry's name; and a non-recursive watch on a directory, for a
\* batch holding a tombstone for a direct child and a modification two levels
\* down, is passed the one-element list with the child's removal.
C16_ActionAndName ==
    \A k \in 1..Len(calls) :
        ~calls[k].reset =>
            LET tag == watchesCopy[calls[k].i]
                to_sub == calls[k].to_sub
                sel == SelectSeq(res.entries,
                           LAMBDA e : InScope(tag.dir_handle.path_lower, tag.watch_tree, e.path_lower))
            IN  /\ Len(to_sub) = Len(sel)
                /\ \A j \in 1..Len(to_sub) :
                      /\ to_sub[j].action \in {"removed", "modified"}
                      /\ to_sub[j].action = "removed" <=> sel[j].deleted
                      /\ to_sub[j].filename = sel[j].name
                /\ (res.entries = <<FeedGone, FeedNested>> /\ ~tag.watch_tree)
                      => to_sub = <<Change("removed", <<"b">>)>>

\* the non-recursive watch on /b was passed [removed b] for the batch holding the
\* tombstone of /b/b and the modification of /b/b/bc
C16_Witness ==
    /\ res.entries = <<FeedGone, FeedNested>>
    /\ \E k \in 1..Len(calls) :
          /\ ~calls[k].reset
          /\ ~watchesCopy[calls[k].i].watch_tree
          /\ calls[k].to_sub = <<Change("removed", <<"b">>)>>

\* ------------------------------------------------------------------ claims: cursor discipline
\* C17: a fetch that fails with an error other than the invalidation of the feed
\* leaves needs_reset and a stored cursor as they are, and after its backoff the
\* poller is back at the fetch with the same cursor; the stored cursor moves to
\* the batch's continuation cursor only when the loop over the registrations is
\* over; and the positions fetched with success since the cursor was acquired
\* are consecutive: no batch twice, none skipped.
C17_CursorDiscipline ==
    /\ [][(pc = "poll" /\ pc' = "backoff" /\ ~owedReset')
            => (needs_reset' = needs_reset /\ (cursor # None => cursor' = cursor))]_vars
    /\ [][(pc = "backoff" /\ ~owedReset /\ pc' # "backoff")
            => (pc' = "poll" /\ cursor' = cursor /\ needs_reset' = needs_reset)]_vars
    /\ [][(pc \in {"snapshot", "locked", "call_reset", "call_changes"})
            => cursor' = cursor]_vars
    /\ [][(pc = "finish" /\ pc' # "finish") => cursor' = res.cursor]_vars
    /\ [](\A k \in 1..(Len(fetchLog) - 1) : fetchLog[k + 1] = fetchLog[k] + 1)

\* ------------------------------------------------------------------ claims: directory iterator (end of the sequence)
\* C18: once the generator is over (a file newer than the boundary was met, or
\* the backend reported no more pages), the read() that found it so returned
\* None, and until the next reset() every read() returns None again, fetches no
\* page and leaves the generator and the page cursor as they are; and read()
\* never returns more entries than the finite listing holds.
C18_ExhaustedStaysExhausted ==
    /\ [](gen.st = "done" => d_last.kind = "end")
    /\ [][(gen.st = "done" /\ gen'.st # "new")
            => /\ gen' = gen
               /\ d_cursor' = d_cursor
               /\ d_out' = d_out
               /\ d_last'.kind = "end"
               /\ d_last' # d_last => d_last'.fetched = 0]_vars
    /\ [](Len(d_out) <= Len(Flat(d_listing)))

\* the first entry of the directory is a file newer than the boundary: the first
\* read() fetched a page and returned None, a later read() returned None again
\* without a fetch
C18_Witness ==
    /\ gen.st = "done"
    /\ d_out = <<>>
    /\ d_last.kind = "end"
    /\ d_last.fetched = 0
    /\ Flat(d_listing) # <<>>
    /\ IsNewer(Flat(d_listing)[1], gen.start)

\* C19: whenever the stored cursor is None, needs_reset is true; needs_reset goes
\* from true to false only in the step that ends a delivery cycle and sets the
\* cursor to the batch's continuation cursor; and the batch fetched first with a
\* newly acquired cursor is processed with needs_reset true, every registration
\* of the copy having been called with 'reset' when the loop is over.
C19_ResetWithFreshCursor ==
    /\ [](cursor = None => needs_reset)
    /\ [][(needs_reset /\ ~needs_reset')
            => (pc = "finish" /\ cursor' = res.cursor)]_vars
    /\ []((pc \in {"snapshot", "locked", "call_reset", "call_changes", "finish"}
             /\ Len(fetchLog) = 1)
            => /\ needs_reset
               /\ pc = "finish" =>
                     \A i \in 1..Len(watchesCopy) :
                         \E k \in 1..Len(calls) : calls[k] = Call(i, TRUE, <<>>))

\* the loop over two registrations is over for the first batch of a newly
\* acquired cursor, and both were called with 'reset'
C19_Witness ==
    /\ pc = "finish"
    /\ Len(fetchLog) = 1
    /\ needs_reset
    /\ Len(watchesCopy) = 2
    /\ \A i \in 1..2 : \E k \in 1..Len(calls) : calls[k] = Call(i, TRUE, <<>>)

\* ------------------------------------------------------------------ claims: registry contents
\* C20: the registry holds, for every tag, as many entries as create_watch calls
\* with that tag whose stop() has not returned (so its length is the number of
\* successful creates minus the number of completed stops), and a step that
\* shortens the registry takes out one entry: every tag other than the stopped
\* one keeps its entries, and so does the stopped tag but for one.
C20_RegistryMatchesLive ==
    /\ [](\A t \in Tags : Count(watches, t) = live[t])
    /\ [][Len(watches') < Len(watches)
            => /\ Len(watches') = Len(watches) - 1
               /\ \E t \in Tags :
                     /\ Count(watches', t) = Count(watches, t) - 1
                     /\ \A u \in Tags \ {t} : Count(watches', u) = Count(watches, u)]_vars

\* two watches were registered with the same callback, handle, filter and flag;
\* the stop() of one has returned and the other is still in the registry
C20_Witness ==
    /\ stopLeft = 1
    /\ \E t \in Tags : live[t] = 1 /\ watches = <<t>>

====
